---- MODULE Spec2Model ----
(***************************************************************************)
(* Order lifecycle of the marketplace backend: the Order aggregate (cart,  *)
(* totals, soft delete), the order status machine with its status history, *)
(* the delivery and payment records, and the delayed payment callback.     *)
(*                                                                         *)
(* The database is modelled collection by collection.  An order's leadId   *)
(* is its index in `orders`; its invoice number is in one-to-one            *)
(* correspondence with the leadId, so the status history, the delivery     *)
(* records and the payment records are kept per leadId.                    *)
(*                                                                         *)
(* Handlers whose awaits matter for the properties below are split at the  *)
(* await (addToCart: lookup / save; removeFromCart: first save / second    *)
(* save; the setTimeout callback of processPayment: one step per await).   *)
(* Every other handler is one action.                                      *)
(***************************************************************************)
EXTENDS Integers, Sequences, FiniteSets, TLC

\* ------------------------------------------------------------------ bounds
MaxOrders == 2
MaxFlowOrders == 1
MaxEvents == 5
MaxQty == 2
MaxInflight == 1
MaxFaults == 1

\* ------------------------------------------------------------------ actors and catalogue
Customers == {"c1"}
Vendors == {"v1", "v2"}
AdminId == "admin"
Items == {"i1", "i2", "i3"}

\* the Inventory collection as seeded: each item's owner and description
Catalogue ==
  [i \in Items |-> [vendorId |-> IF i = "i3" THEN "v2" ELSE "v1",
                    itemDescription |-> "d0"]]

\* unit prices an InventoryPrice record can carry
Prices == {10, 20}

\* ------------------------------------------------------------------ enumerations
\* orderSchema.orderStatus enum
OrderStatusEnum ==
  {"pending", "vendor_accepted", "payment_done", "order_confirmed",
   "shipped", "delivered", "cancelled"}

\* validStatuses of the admin override
ValidStatuses ==
  {"pending", "vendor_accepted", "payment_done", "order_confirmed",
   "truck_loading", "in_transit", "shipped", "out_for_delivery",
   "delivered", "cancelled"}

\* allowedStatuses of the vendor status update, in the documented order
AllowedStatuses ==
  <<"truck_loading", "in_transit", "shipped", "out_for_delivery", "delivered">>

\* allowedCurrentStatuses of the vendor status update
AllowedCurrentStatuses ==
  {"order_confirmed", "truck_loading", "in_transit", "shipped", "out_for_delivery"}

\* orderDeliverySchema.deliveryStatus enum
DeliveryStatusEnum ==
  {"pending", "picked_up", "in_transit", "out_for_delivery", "delivered",
   "failed", "returned"}

\* users of the auth endpoints
AuthUsers == {"c1", "v1"}

\* User.refreshToken: null
NoToken == [userId |-> "none", n |-> 0]

VARIABLES
  orders,         \* Order collection: sequence of order documents, leadId = index
  statusHistory,  \* OrderStatus collection, per leadId: sequence of events
  deliveries,     \* OrderDelivery collection, per leadId: sequence of records
  payments,       \* OrderPayment collection, per leadId (invcNum): sequence of records
  price,          \* InventoryPrice.unitPrice per item
  inventory,      \* Inventory collection: document per item code
  cartReqs,       \* addToCart requests between the order lookup and the save
  rmReqs,         \* removeFromCart requests between their two saves
  timers,         \* setTimeout callbacks of processPayment
  resp,           \* HTTP status code of the request that completed last
  faultBudget,    \* database write failures the environment may still inject
  promo,          \* Promo collection: the promo document under study
  now,            \* new Date(): the clock the promo methods read
  promoQuote,     \* body of the last calculatePromoDiscount response
  shipPrice,      \* InventoryShipPrice collection: the active table of the item
  shipQuotes,     \* bodies of the getShippingPrice responses so far
  userToken,      \* User.refreshToken per user
  refreshReqs,    \* refreshToken requests between the token check and the save
  tokenCount      \* refresh tokens generateTokens has signed so far

vars ==
  <<orders, statusHistory, deliveries, payments, price, inventory, cartReqs, rmReqs,
    timers, resp, faultBudget, promo, now, promoQuote, shipPrice, shipQuotes,
    userToken, refreshReqs, tokenCount>>

\* the user collection's tokens, which no order or pricing handler touches
authVars == <<userToken, refreshReqs, tokenCount>>

\* the promo and shipping collections, which no order handler touches
pricingVars == <<promo, now, promoQuote, shipPrice, shipQuotes>>

\* Inventory.vendorId of a catalogue item
ItemVendor(i) == inventory[i].vendorId

\* ------------------------------------------------------------------ helpers
Range(s) == {s[k] : k \in 1..Len(s)}

RECURSIVE SumQty(_)
SumQty(items) ==
  IF items = <<>> THEN 0 ELSE items[1].qty + SumQty(Tail(items))

RECURSIVE SumCost(_)
SumCost(items) ==
  IF items = <<>> THEN 0 ELSE items[1].totalCost + SumCost(Tail(items))

Max(a, b) == IF a >= b THEN a ELSE b

\* Array.findIndex on the line items: 0 when no line has the item code
RECURSIVE FindIndexFrom(_, _, _)
FindIndexFrom(items, itemCode, k) ==
  IF k > Len(items) THEN 0
  ELSE IF items[k].itemCode = itemCode THEN k
  ELSE FindIndexFrom(items, itemCode, k + 1)

FindIndex(items, itemCode) == FindIndexFrom(items, itemCode, 1)

\* Array.filter keeping the lines whose item code differs
RECURSIVE FilterOut(_, _)
FilterOut(items, itemCode) ==
  IF items = <<>> THEN <<>>
  ELSE IF items[1].itemCode = itemCode THEN FilterOut(Tail(items), itemCode)
  ELSE <<items[1]>> \o FilterOut(Tail(items), itemCode)

RemoveAt(s, k) == SubSeq(s, 1, k - 1) \o SubSeq(s, k + 1, Len(s))

\* ------------------------------------------------------------------ Order model
\* a pre('save') hook that leaves the totals as they are (alternative used to
\* show that the totals property depends on the hook)
KeepTotals(doc) == doc

\* pre('save'): totals are recomputed from the line items when items changed
PreSaveTotals(doc) ==
  LET qtySum == SumQty(doc.items)
      costSum == SumCost(doc.items)
  IN [doc EXCEPT
        !.totalQty = qtySum,
        !.totalAmount = IF doc.promoDiscount > 0
                        THEN Max(0, costSum - doc.promoDiscount)
                        ELSE costSum]

\* addItem, on the in-memory document (the save is done by the caller's step)
AddItem(doc, itemCode, qty, unitPrice) ==
  LET idx == FindIndex(doc.items, itemCode)
  IN IF idx > 0
     THEN [doc EXCEPT
             !.items[idx].qty = @ + qty,
             !.items[idx].totalCost = (doc.items[idx].qty + qty) * unitPrice]
     ELSE [doc EXCEPT
             !.items = Append(@, [itemCode |-> itemCode, qty |-> qty,
                                  unitPrice |-> unitPrice,
                                  totalCost |-> qty * unitPrice])]

\* removeItem, on the in-memory document
RemoveItem(doc, itemCode) ==
  [doc EXCEPT !.items = FilterOut(@, itemCode)]

\* new Order({...}) of addToCart, with the schema defaults
NewOrder(cust, itemCode, qty, unitPrice) ==
  [custUserId |-> cust,
   vendorId |-> ItemVendor(itemCode),
   items |-> <<[itemCode |-> itemCode, qty |-> qty, unitPrice |-> unitPrice,
                totalCost |-> qty * unitPrice]>>,
   totalQty |-> qty,
   totalAmount |-> qty * unitPrice,
   promoDiscount |-> 0,
   orderStatus |-> "pending",
   isActive |-> TRUE,
   pincodeSet |-> FALSE,
   v |-> 0]

\* whether the enum validator of orderStatus accepts the value on save
StatusValid(s) == s \in OrderStatusEnum

\* OrderStatus.createStatusUpdate: one appended history record (the order's
\* ids are the key it is stored under; remarks and timestamp are not modelled)
StatusEvent(status, actor) ==
  [orderStatus |-> status, updatedBy |-> actor]

LeadIds == 1..Len(orders)

\* number of documents in the OrderStatus collection
RECURSIVE CountEvents(_)
CountEvents(h) == IF h = <<>> THEN 0 ELSE Len(h[1]) + CountEvents(Tail(h))

\* the OrderStatus collection has room for one more event
CanLog(o) == CountEvents(statusHistory) < MaxEvents

\* Order.findOne({custUserId, vendorId, orderStatus: 'pending', isActive: true}):
\* the first matching document, 0 when there is none
RECURSIVE FindPendingFrom(_, _, _)
FindPendingFrom(cust, vendor, k) ==
  IF k > Len(orders) THEN 0
  ELSE IF /\ orders[k].custUserId = cust
          /\ orders[k].vendorId = vendor
          /\ orders[k].orderStatus = "pending"
          /\ orders[k].isActive
       THEN k
       ELSE FindPendingFrom(cust, vendor, k + 1)

FindPending(cust, vendor) == FindPendingFrom(cust, vendor, 1)

\* ------------------------------------------------------------------ initial state
Init ==
  /\ orders = <<>>
  /\ statusHistory = <<>>
  /\ deliveries = <<>>
  /\ payments = <<>>
  /\ price = [i \in Items |-> 10]
  /\ inventory = Catalogue
  /\ cartReqs = <<>>
  /\ rmReqs = <<>>
  /\ timers = <<>>
  /\ resp = 0
  /\ faultBudget = 0
  /\ promo = <<>>
  /\ now = 0
  /\ promoQuote = <<>>
  /\ shipPrice = <<>>
  /\ shipQuotes = {}
  /\ userToken = [u \in AuthUsers |-> NoToken]
  /\ refreshReqs = <<>>
  /\ tokenCount = 0

\* ------------------------------------------------------------------ addToCart
\* lines 24-50: the reads of addToCart (item, pricing, existing pending order)
CartLookup(cust, itemCode, qty) ==
  LET e == FindPending(cust, ItemVendor(itemCode))
  IN [cust |-> cust, itemCode |-> itemCode, qty |-> qty,
      unitPrice |-> price[itemCode],
      existing |-> e,
      doc |-> IF e > 0 THEN <<orders[e]>> ELSE <<>>]

\* lines 52-89 on an existing order: addItem, save, status event.
\* The save sends $push for a new line (version incremented, not checked) and a
\* positional $set for a changed line (version checked); totals are $set from
\* the in-memory document.
CartSaveExisting(req) ==
  LET e == req.existing
      old == req.doc[1]
      idx == FindIndex(old.items, req.itemCode)
      doc == PreSaveTotals(AddItem(old, req.itemCode, req.qty, req.unitPrice))
      versionOk == orders[e].v = old.v
      stored ==
        IF idx > 0
        THEN [orders[e] EXCEPT !.items[idx].qty = doc.items[idx].qty,
                               !.items[idx].totalCost = doc.items[idx].totalCost,
                               !.totalQty = doc.totalQty,
                               !.totalAmount = doc.totalAmount]
        ELSE [orders[e] EXCEPT !.items = Append(@, doc.items[Len(doc.items)]),
                               !.totalQty = doc.totalQty,
                               !.totalAmount = doc.totalAmount,
                               !.v = @ + 1]
  IN IF idx > 0 /\ ~versionOk
     THEN [orders |-> orders, statusHistory |-> statusHistory, code |-> 500]
     ELSE [orders |-> [orders EXCEPT ![e] = stored],
           statusHistory |->
             [statusHistory EXCEPT ![e] =
                Append(@, StatusEvent("pending", req.cust))],
           code |-> 201]

\* lines 57-89 without an existing order: new Order, save, status event
CartSaveNew(req) ==
  [orders |-> Append(orders, NewOrder(req.cust, req.itemCode, req.qty, req.unitPrice)),
   statusHistory |->
     Append(statusHistory,
            <<StatusEvent("pending", req.cust)>>),
   code |-> 201]

CartSave(req) ==
  IF req.existing > 0 THEN CartSaveExisting(req) ELSE CartSaveNew(req)

\* the qty of the line after the add stays within the model's bound, and the
\* collections have room
CartSaveFits(req) ==
  IF req.existing > 0
  THEN /\ CanLog(req.existing)
       /\ LET idx == FindIndex(req.doc[1].items, req.itemCode)
          IN idx > 0 => req.doc[1].items[idx].qty + req.qty <= MaxQty
  ELSE Len(orders) < MaxOrders /\ CountEvents(statusHistory) < MaxEvents

ApplyCartSave(r) ==
  /\ orders' = r.orders
  /\ statusHistory' = r.statusHistory
  /\ deliveries' = IF Len(r.orders) > Len(orders) THEN Append(deliveries, <<>>) ELSE deliveries
  /\ payments' = IF Len(r.orders) > Len(orders) THEN Append(payments, <<>>) ELSE payments
  /\ resp' = r.code

\* addToCart up to the lookup of the existing pending order
AddToCartLookup(cust, itemCode, qty) ==
  /\ Len(cartReqs) < MaxInflight
  /\ cartReqs' = Append(cartReqs, CartLookup(cust, itemCode, qty))
  /\ UNCHANGED <<orders, statusHistory, deliveries, payments, authVars, pricingVars, price, inventory, rmReqs,
                 timers, resp, faultBudget>>

\* addToCart from the lookup's result to the response (the interleaved
\* specifications create at most MaxFlowOrders orders)
AddToCartSave(k) ==
  /\ k \in 1..Len(cartReqs)
  /\ CartSaveFits(cartReqs[k])
  /\ cartReqs[k].existing = 0 => Len(orders) < MaxFlowOrders
  /\ ApplyCartSave(CartSave(cartReqs[k]))
  /\ cartReqs' = RemoveAt(cartReqs, k)
  /\ UNCHANGED <<authVars, pricingVars, price, inventory, rmReqs, timers, faultBudget>>

\* addToCart run without another request in between
AddToCart(cust, itemCode, qty) ==
  /\ cartReqs = <<>>
  /\ CartSaveFits(CartLookup(cust, itemCode, qty))
  /\ ApplyCartSave(CartSave(CartLookup(cust, itemCode, qty)))
  /\ UNCHANGED <<authVars, pricingVars, price, inventory, cartReqs, rmReqs, timers, faultBudget>>

\* ------------------------------------------------------------------ shared pieces
\* the variables no order handler touches
Frame == UNCHANGED <<authVars, pricingVars, price, inventory, cartReqs, rmReqs, timers, faultBudget>>

\* a request answered with an error status before anything was written
Refuse(code) ==
  /\ resp' = code
  /\ UNCHANGED <<orders, statusHistory, deliveries, payments>>

\* updateStatus: the status is assigned and the document saved
UpdateStatus(os, o, newStatus) == [os EXCEPT ![o].orderStatus = newStatus]

\* OrderStatus.createStatusUpdate for order o
CreateStatusUpdate(h, o, status, actor) ==
  [h EXCEPT ![o] = Append(@, StatusEvent(status, actor))]

\* OrderDelivery.findByOrder: index of the first active record, 0 when none
RECURSIVE FindDeliveryFrom(_, _)
FindDeliveryFrom(ds, k) ==
  IF k > Len(ds) THEN 0
  ELSE IF ds[k].isActive THEN k
  ELSE FindDeliveryFrom(ds, k + 1)

FindByOrder(o) == FindDeliveryFrom(deliveries[o], 1)

\* new OrderDelivery({... deliveryStatus: 'pending'}) with the schema defaults
NewDelivery ==
  [deliveryStatus |-> "pending", deliveryActualDate |-> FALSE,
   trackingNumber |-> FALSE, isActive |-> TRUE]

\* OrderDelivery.addTrackingInfo
AddTrackingInfo(d) ==
  [d EXCEPT !.trackingNumber = TRUE, !.deliveryStatus = "in_transit"]

\* OrderDelivery.updateDeliveryStatus
UpdateDeliveryStatus(d, newStatus) ==
  [d EXCEPT !.deliveryStatus = newStatus,
            !.deliveryActualDate = IF newStatus = "delivered" THEN TRUE ELSE @]

\* the controllers' direct assignment delivery.deliveryStatus = ...; save()
SetDeliveryStatus(d, newStatus) == [d EXCEPT !.deliveryStatus = newStatus]

\* save of a delivery document: replaces record k, or inserts when k = 0
SaveDelivery(o, k, d) ==
  IF k > 0 THEN [deliveries EXCEPT ![o][k] = d]
  ELSE [deliveries EXCEPT ![o] = Append(@, d)]

\* ------------------------------------------------------------------ removeFromCart
\* Order.findOne({leadId, custUserId, orderStatus: 'pending', isActive: true})
FindOwnPending(cust, o) ==
  /\ orders[o].custUserId = cust
  /\ orders[o].orderStatus = "pending"
  /\ orders[o].isActive

\* line 296: removeItem and its save.  Assigning the filtered array sends a
\* $set of the whole array (version incremented); an unchanged array is not
\* a modification and nothing is written.
RemoveItemSaved(o, itemCode) ==
  LET doc == PreSaveTotals(RemoveItem(orders[o], itemCode))
  IN IF doc.items = orders[o].items THEN orders[o]
     ELSE [doc EXCEPT !.v = @ + 1]

\* lines 299-301: the second save of removeFromCart, $set isActive
Deactivate(os, o) == [os EXCEPT ![o].isActive = FALSE]

\* removeFromCart up to the save of removeItem; the request stays in flight
\* when the in-memory item list is empty
RemoveFromCartFirst(cust, o, itemCode) ==
  /\ Len(rmReqs) < MaxInflight
  /\ IF FindOwnPending(cust, o)
     THEN LET d == RemoveItemSaved(o, itemCode)
          IN /\ orders' = [orders EXCEPT ![o] = d]
             /\ rmReqs' = IF d.items = <<>> THEN Append(rmReqs, o) ELSE rmReqs
             /\ resp' = IF d.items = <<>> THEN resp ELSE 200
     ELSE /\ resp' = 404
          /\ UNCHANGED <<orders, rmReqs>>
  /\ UNCHANGED <<statusHistory, deliveries, payments, authVars, pricingVars, price, inventory, cartReqs, timers,
                 faultBudget>>

\* removeFromCart from the empty item list to the response
RemoveFromCartSecond(k) ==
  /\ k \in 1..Len(rmReqs)
  /\ orders' = Deactivate(orders, rmReqs[k])
  /\ rmReqs' = RemoveAt(rmReqs, k)
  /\ resp' = 200
  /\ UNCHANGED <<statusHistory, deliveries, payments, authVars, pricingVars, price, inventory, cartReqs, timers,
                 faultBudget>>

\* removeFromCart run without another request in between
RemoveFromCart(cust, o, itemCode) ==
  /\ rmReqs = <<>>
  /\ IF FindOwnPending(cust, o)
     THEN LET d == RemoveItemSaved(o, itemCode)
              os == [orders EXCEPT ![o] = d]
          IN /\ orders' = IF d.items = <<>> THEN Deactivate(os, o) ELSE os
             /\ resp' = 200
     ELSE /\ resp' = 404
          /\ UNCHANGED orders
  /\ UNCHANGED <<statusHistory, deliveries, payments, authVars, pricingVars, price, inventory, cartReqs, rmReqs,
                 timers, faultBudget>>

\* ------------------------------------------------------------------ updateOrder, placeOrder
\* updateOrder: partial update of the delivery fields of a pending order
UpdateOrder(cust, o, withPincode) ==
  /\ CanLog(o)
  /\ IF FindOwnPending(cust, o)
     THEN /\ orders' = [orders EXCEPT ![o].pincodeSet = @ \/ withPincode]
          /\ statusHistory' =
               CreateStatusUpdate(statusHistory, o, "pending", cust)
          /\ resp' = 200
          /\ UNCHANGED <<deliveries, payments>>
     ELSE Refuse(404)
  /\ Frame

\* the item list is not looked at
NeverEmpty(doc) == FALSE

\* placeOrder: order.items.length === 0
HasNoItems(doc) == Len(doc.items) = 0

\* placeOrder: delivery fields, status event, new delivery record
PlaceOrder(cust, o) ==
  /\ CanLog(o)
  /\ IF ~FindOwnPending(cust, o) THEN Refuse(404)
     ELSE IF HasNoItems(orders[o]) THEN Refuse(400)
     ELSE /\ orders' = [orders EXCEPT ![o].pincodeSet = TRUE]
          /\ statusHistory' =
               CreateStatusUpdate(statusHistory, o, "pending", cust)
          /\ deliveries' = SaveDelivery(o, 0, NewDelivery)
          /\ resp' = 200
          /\ UNCHANGED payments
  /\ Frame

\* ------------------------------------------------------------------ payment
\* a collection that never reports a record for the invoice (alternative
\* used to show that the one-payment property depends on the lookup)
NoRecordSeen(o) == FALSE

\* OrderPayment keeps one record per invoice number: a second insert for the
\* same invoice is refused by the collection
PaymentExists(o) == Len(payments[o]) > 0

NewPayment(status) == [paymentStatus |-> status]

\* OrderPayment.findByInvoice(...).getPaymentSummary(), as getPaymentStatus
\* answers it: the status code and the payment status shown
GetPaymentStatus(cust, o) ==
  IF ~(orders[o].custUserId = cust /\ orders[o].isActive)
  THEN [code |-> 404, paymentStatus |-> "none"]
  ELSE IF ~PaymentExists(o) THEN [code |-> 404, paymentStatus |-> "none"]
  ELSE [code |-> 200, paymentStatus |-> payments[o][1].paymentStatus]

\* a lookup without the orderStatus filter (alternative used to show that the
\* payment property depends on the filter)
FindOwnActive(cust, o) ==
  /\ orders[o].custUserId = cust
  /\ orders[o].isActive

\* Order.findOne({leadId, custUserId, orderStatus: 'vendor_accepted', isActive: true})
FindPayable(cust, o) ==
  /\ orders[o].custUserId = cust
  /\ orders[o].orderStatus = "vendor_accepted"
  /\ orders[o].isActive

\* the timer processPayment arms: setTimeout(callback, 2000)
NewTimer(cust, o) ==
  [leadId |-> o, cust |-> cust, pc |-> "scheduled", outcome |-> "none"]

\* processPayment up to its response; the callback runs later
ProcessPayment(cust, o) ==
  /\ IF ~FindPayable(cust, o) THEN Refuse(404) /\ timers' = timers
     ELSE IF PaymentExists(o) THEN Refuse(500) /\ timers' = timers
     ELSE /\ payments' = [payments EXCEPT ![o] = Append(@, NewPayment("processing"))]
          /\ timers' = Append(timers, NewTimer(cust, o))
          /\ resp' = 200
          /\ UNCHANGED <<orders, statusHistory, deliveries>>
  /\ UNCHANGED <<authVars, pricingVars, price, inventory, cartReqs, rmReqs, faultBudget>>

\* a catch block that rethrows: the rejection escapes the timer callback
\* (alternative used to show that the tolerance property depends on the catch)
RethrowOutcome == "crashed"

\* what the callback's catch block makes of a rejected await: it is logged
CatchOutcome == "logged"

\* one await of the callback: it resolves, or (while the environment may
\* inject a failure) rejects and control passes to the catch block
CbAwait(t, ok, nextPc) ==
  /\ ok \/ faultBudget > 0
  /\ faultBudget' = IF ok THEN faultBudget ELSE faultBudget - 1
  /\ timers' = IF ok
               THEN [timers EXCEPT ![t].pc = nextPc,
                                   ![t].outcome = IF nextPc = "done" THEN "ok" ELSE @]
               ELSE [timers EXCEPT ![t].pc = "done", ![t].outcome = CatchOutcome]
  /\ UNCHANGED <<authVars, pricingVars, price, inventory, cartReqs, rmReqs, resp>>

\* line 454: payment.markAsSuccessful()
CbMarkSuccessful(t, ok) ==
  /\ timers[t].pc = "scheduled"
  /\ CbAwait(t, ok, "paid")
  /\ payments' = IF ok
                 THEN [payments EXCEPT ![timers[t].leadId][1].paymentStatus = "completed"]
                 ELSE payments
  /\ UNCHANGED <<orders, statusHistory, deliveries>>

\* line 457: order.updateStatus('payment_done') on the document read by processPayment
CbWritePaymentDone(t, ok) ==
  /\ timers[t].pc = "paid"
  /\ CbAwait(t, ok, "wrote_payment_done")
  /\ orders' = IF ok THEN UpdateStatus(orders, timers[t].leadId, "payment_done")
               ELSE orders
  /\ UNCHANGED <<statusHistory, deliveries, payments>>

\* lines 460-467: the payment_done status event
CbLogPaymentDone(t, ok) ==
  /\ timers[t].pc = "wrote_payment_done"
  /\ CanLog(timers[t].leadId)
  /\ CbAwait(t, ok, "logged_payment_done")
  /\ statusHistory' =
       IF ok
       THEN CreateStatusUpdate(statusHistory, timers[t].leadId, "payment_done",
                               timers[t].cust)
       ELSE statusHistory
  /\ UNCHANGED <<orders, deliveries, payments>>

\* line 470: order.updateStatus('order_confirmed')
CbWriteConfirmed(t, ok) ==
  /\ timers[t].pc = "logged_payment_done"
  /\ CbAwait(t, ok, "wrote_order_confirmed")
  /\ orders' = IF ok THEN UpdateStatus(orders, timers[t].leadId, "order_confirmed")
               ELSE orders
  /\ UNCHANGED <<statusHistory, deliveries, payments>>

\* lines 472-479: the order_confirmed status event; the callback ends
CbLogConfirmed(t, ok) ==
  /\ timers[t].pc = "wrote_order_confirmed"
  /\ CanLog(timers[t].leadId)
  /\ CbAwait(t, ok, "done")
  /\ statusHistory' =
       IF ok
       THEN CreateStatusUpdate(statusHistory, timers[t].leadId, "order_confirmed",
                               timers[t].cust)
       ELSE statusHistory
  /\ UNCHANGED <<orders, deliveries, payments>>

\* ------------------------------------------------------------------ vendor
\* Order.findOne({leadId, vendorId, orderStatus: 'pending', isActive: true})
FindVendorPending(vendor, o) ==
  /\ orders[o].vendorId = vendor
  /\ orders[o].orderStatus = "pending"
  /\ orders[o].isActive

\* a lookup without the vendorId filter
FindAnyVendorOrder(vendor, o) == orders[o].isActive

\* Order.findOne({leadId, vendorId, isActive: true})
FindVendorOrder(vendor, o) ==
  /\ orders[o].vendorId = vendor
  /\ orders[o].isActive

AcceptOrder(vendor, o) ==
  /\ CanLog(o)
  /\ IF FindVendorPending(vendor, o)
     THEN /\ orders' = UpdateStatus(orders, o, "vendor_accepted")
          /\ statusHistory' =
               CreateStatusUpdate(statusHistory, o, "vendor_accepted", vendor)
          /\ resp' = 200
          /\ UNCHANGED <<deliveries, payments>>
     ELSE Refuse(404)
  /\ Frame

RejectOrder(vendor, o) ==
  /\ CanLog(o)
  /\ IF FindVendorPending(vendor, o)
     THEN /\ orders' = UpdateStatus(orders, o, "cancelled")
          /\ statusHistory' =
               CreateStatusUpdate(statusHistory, o, "cancelled", vendor)
          /\ resp' = 200
          /\ UNCHANGED <<deliveries, payments>>
     ELSE Refuse(404)
  /\ Frame

\* the order status updateDeliveryTracking derives from the delivery status
\* ("none": the order status is not written)
TrackingOrderStatus(deliveryStatus) ==
  IF deliveryStatus = "delivered" THEN "delivered"
  ELSE IF deliveryStatus \in {"in_transit", "out_for_delivery"} THEN "shipped"
  ELSE "none"

\* updateDeliveryTracking: withTracking says whether trackingNumber and
\* courierService are given, deliveryStatus is "none" when absent.  A record
\* built from an order without a real pincode fails validation on its first save.
UpdateDeliveryTracking(vendor, o, withTracking, deliveryStatus) ==
  /\ CanLog(o)
  /\ LET k == FindByOrder(o)
         d0 == IF k > 0 THEN deliveries[o][k] ELSE NewDelivery
         d1 == IF withTracking THEN AddTrackingInfo(d0) ELSE d0
         d2 == IF deliveryStatus # "none" THEN UpdateDeliveryStatus(d1, deliveryStatus)
               ELSE d1
         saved == withTracking \/ deliveryStatus # "none"
         target == TrackingOrderStatus(deliveryStatus)
     IN IF ~FindVendorOrder(vendor, o) THEN Refuse(404)
        ELSE IF saved /\ k = 0 /\ ~orders[o].pincodeSet THEN Refuse(500)
        ELSE /\ deliveries' = IF saved THEN SaveDelivery(o, k, d2) ELSE deliveries
             /\ orders' = IF target # "none" THEN UpdateStatus(orders, o, target)
                          ELSE orders
             /\ statusHistory' =
                  IF target = "delivered"
                  THEN CreateStatusUpdate(statusHistory, o, "delivered", vendor)
                  ELSE IF target = "shipped"
                  THEN CreateStatusUpdate(statusHistory, o, "shipped", vendor)
                  ELSE statusHistory
             /\ resp' = 200
             /\ UNCHANGED payments
  /\ Frame

\* lines 447-455 and admin lines 827-834: the delivery record, when there is
\* one, is marked delivered by direct assignment
MarkDeliveryDelivered(o) ==
  LET k == FindByOrder(o)
  IN IF k > 0
     THEN SaveDelivery(o, k, SetDeliveryStatus(deliveries[o][k], "delivered"))
     ELSE deliveries

\* updateVendorOrderStatus
UpdateVendorOrderStatus(vendor, o, newStatus) ==
  /\ CanLog(o)
  /\ IF newStatus \notin Range(AllowedStatuses) THEN Refuse(400)
     ELSE IF ~FindVendorOrder(vendor, o) THEN Refuse(404)
     ELSE IF orders[o].orderStatus \notin AllowedCurrentStatuses THEN Refuse(400)
     ELSE IF ~StatusValid(newStatus) THEN Refuse(500)
     ELSE /\ orders' = UpdateStatus(orders, o, newStatus)
          /\ statusHistory' =
               CreateStatusUpdate(statusHistory, o, newStatus, vendor)
          /\ deliveries' = IF newStatus = "delivered" THEN MarkDeliveryDelivered(o)
                           ELSE deliveries
          /\ resp' = 200
          /\ UNCHANGED payments
  /\ Frame

\* ------------------------------------------------------------------ admin
\* Order.findOne({leadId, isActive: true})
FindActive(o) == orders[o].isActive

CancelOrder(o) ==
  /\ CanLog(o)
  /\ IF ~FindActive(o) THEN Refuse(404)
     ELSE IF orders[o].orderStatus = "delivered" THEN Refuse(400)
     ELSE /\ orders' = UpdateStatus(orders, o, "cancelled")
          /\ statusHistory' =
               CreateStatusUpdate(statusHistory, o, "cancelled", AdminId)
          /\ resp' = 200
          /\ UNCHANGED <<deliveries, payments>>
  /\ Frame

\* no status is checked
AnyStatus(status) == TRUE

\* markPaymentDone: order.orderStatus !== 'vendor_accepted' is refused
AwaitsPayment(status) == status = "vendor_accepted"

\* confirmOrder: order.orderStatus !== 'payment_done' is refused
AwaitsConfirmation(status) == status = "payment_done"

\* markPaymentDone: validAmount says whether paidAmount is a positive number
MarkPaymentDone(o, validAmount) ==
  /\ CanLog(o)
  /\ IF ~FindActive(o) THEN Refuse(404)
     ELSE IF ~AwaitsPayment(orders[o].orderStatus) THEN Refuse(400)
     ELSE IF ~validAmount THEN Refuse(400)
     ELSE /\ payments' =
               IF PaymentExists(o)
               THEN [payments EXCEPT ![o][1].paymentStatus = "completed"]
               ELSE [payments EXCEPT ![o] = Append(@, NewPayment("completed"))]
          /\ orders' = UpdateStatus(orders, o, "payment_done")
          /\ statusHistory' =
               CreateStatusUpdate(statusHistory, o, "payment_done", AdminId)
          /\ resp' = 200
          /\ UNCHANGED deliveries
  /\ Frame

ConfirmOrder(o) ==
  /\ CanLog(o)
  /\ IF ~FindActive(o) THEN Refuse(404)
     ELSE IF ~AwaitsConfirmation(orders[o].orderStatus) THEN Refuse(400)
     ELSE /\ orders' = UpdateStatus(orders, o, "order_confirmed")
          /\ statusHistory' =
               CreateStatusUpdate(statusHistory, o, "order_confirmed", AdminId)
          /\ resp' = 200
          /\ UNCHANGED <<deliveries, payments>>
  /\ Frame

\* updateOrderStatus: the admin override
UpdateOrderStatus(o, newStatus) ==
  /\ CanLog(o)
  /\ IF newStatus \notin ValidStatuses THEN Refuse(400)
     ELSE IF ~FindActive(o) THEN Refuse(404)
     ELSE IF ~StatusValid(newStatus) THEN Refuse(500)
     ELSE /\ orders' = UpdateStatus(orders, o, newStatus)
          /\ statusHistory' =
               CreateStatusUpdate(statusHistory, o, newStatus, AdminId)
          /\ resp' = 200
          /\ UNCHANGED <<deliveries, payments>>
  /\ Frame

\* updateDelivery: OrderDelivery.create without userId and
\* deliveryExpectedDate fails the schema's required validators
UpdateDelivery(o, deliveryStatus) ==
  /\ LET k == FindByOrder(o)
     IN IF ~FindActive(o) THEN Refuse(404)
        ELSE IF k = 0 THEN Refuse(500)
        ELSE /\ deliveries' =
                  SaveDelivery(o, k, SetDeliveryStatus(deliveries[o][k], deliveryStatus))
             /\ resp' = 200
             /\ UNCHANGED <<orders, statusHistory, payments>>
  /\ Frame

\* markDelivered
MarkDelivered(o) ==
  /\ CanLog(o)
  /\ IF ~FindActive(o) THEN Refuse(404)
     ELSE /\ orders' = UpdateStatus(orders, o, "delivered")
          /\ deliveries' = MarkDeliveryDelivered(o)
          /\ statusHistory' =
               CreateStatusUpdate(statusHistory, o, "delivered", AdminId)
          /\ resp' = 200
          /\ UNCHANGED payments
  /\ Frame

\* ------------------------------------------------------------------ inventory
\* an update that assigns every field of the request body (alternative used
\* to show that the single-vendor property depends on the protected fields)
AssignAll(updateData) == updateData

\* lines 174-177: delete updateData.itemCode / vendorId / createdBy
StripProtected(updateData) ==
  [f \in DOMAIN updateData \ {"itemCode", "vendorId", "createdBy"} |-> updateData[f]]

\* Object.assign(inventory, updateData)
ObjectAssign(doc, updateData) ==
  [f \in DOMAIN doc |-> IF f \in DOMAIN updateData THEN updateData[f] ELSE doc[f]]

\* updateInventory by a user who may access the item
UpdateInventory(itemCode, updateData) ==
  /\ inventory' =
       [inventory EXCEPT ![itemCode] = ObjectAssign(@, StripProtected(updateData))]
  /\ resp' = 200
  /\ UNCHANGED <<orders, statusHistory, deliveries, payments, price, cartReqs,
                 rmReqs, timers, faultBudget, pricingVars, authVars>>

\* ------------------------------------------------------------------ inventory price
\* createInventoryPrice on an item that has a price: the unit price is replaced
CreateInventoryPrice(itemCode, unitPrice) ==
  /\ price' = [price EXCEPT ![itemCode] = unitPrice]
  /\ resp' = 201
  /\ UNCHANGED <<authVars, pricingVars, inventory, orders, statusHistory, deliveries, payments, cartReqs, rmReqs,
                 timers, faultBudget>>

\* ------------------------------------------------------------------ inputs
Qtys == 1..MaxQty
RepricedItems == {"i1"}
FlowItems == {"i1"}
TrackingStatusInputs == {"none", "in_transit", "delivered"}
VendorStatusInputs == Range(AllowedStatuses) \cup {"vendor_accepted"}
AdminStatusInputs == {"order_confirmed", "truck_loading", "cancelled", "refunded"}
AdminDeliveryInputs == {"delivered"}
UpdateDataInputs ==
  {[itemDescription |-> "d1"], [itemDescription |-> "d1", vendorId |-> "v2"]}

\* ------------------------------------------------------------------ specifications
Callback ==
  \E t \in 1..Len(timers), ok \in BOOLEAN :
    \/ CbMarkSuccessful(t, ok)
    \/ CbWritePaymentDone(t, ok)
    \/ CbLogPaymentDone(t, ok)
    \/ CbWriteConfirmed(t, ok)
    \/ CbLogConfirmed(t, ok)

CustomerNext ==
  \/ \E c \in Customers, i \in FlowItems : AddToCartLookup(c, i, 1)
  \/ \E k \in 1..Len(cartReqs) : AddToCartSave(k)
  \/ \E c \in Customers, o \in LeadIds, i \in FlowItems : RemoveFromCartFirst(c, o, i)
  \/ \E k \in 1..Len(rmReqs) : RemoveFromCartSecond(k)
  \/ \E c \in Customers, o \in LeadIds, b \in BOOLEAN : UpdateOrder(c, o, b)
  \/ \E c \in Customers, o \in LeadIds : PlaceOrder(c, o)
  \/ \E c \in Customers, o \in LeadIds : ProcessPayment(c, o)

VendorNext ==
  \/ \E v \in Vendors, o \in LeadIds : AcceptOrder(v, o)
  \/ \E v \in Vendors, o \in LeadIds : RejectOrder(v, o)
  \/ \E v \in Vendors, o \in LeadIds, b \in BOOLEAN, s \in TrackingStatusInputs :
       UpdateDeliveryTracking(v, o, b, s)
  \/ \E v \in Vendors, o \in LeadIds, s \in VendorStatusInputs :
       UpdateVendorOrderStatus(v, o, s)

AdminNext ==
  \/ \E o \in LeadIds : CancelOrder(o)
  \/ \E o \in LeadIds, b \in BOOLEAN : MarkPaymentDone(o, b)
  \/ \E o \in LeadIds : ConfirmOrder(o)
  \/ \E o \in LeadIds, s \in AdminStatusInputs : UpdateOrderStatus(o, s)
  \/ \E o \in LeadIds, s \in AdminDeliveryInputs : UpdateDelivery(o, s)
  \/ \E o \in LeadIds : MarkDelivered(o)

Next == CustomerNext \/ VendorNext \/ AdminNext \/ Callback

Spec == Init /\ [][Next]_vars

\* the same system with database faults: awaits of the callback may reject
InitFault ==
  /\ orders = <<>>
  /\ statusHistory = <<>>
  /\ deliveries = <<>>
  /\ payments = <<>>
  /\ price = [i \in Items |-> 10]
  /\ inventory = Catalogue
  /\ cartReqs = <<>>
  /\ rmReqs = <<>>
  /\ timers = <<>>
  /\ resp = 0
  /\ faultBudget = MaxFaults
  /\ promo = <<>>
  /\ now = 0
  /\ promoQuote = <<>>
  /\ shipPrice = <<>>
  /\ shipQuotes = {}
  /\ userToken = [u \in AuthUsers |-> NoToken]
  /\ refreshReqs = <<>>
  /\ tokenCount = 0

\* the order flow with database faults, for the callback's error handling
NextFault ==
  \/ \E c \in Customers, i \in FlowItems : AddToCart(c, i, 1)
  \/ \E c \in Customers, o \in LeadIds, i \in FlowItems : RemoveFromCartFirst(c, o, i)
  \/ \E k \in 1..Len(rmReqs) : RemoveFromCartSecond(k)
  \/ \E v \in Vendors, o \in LeadIds : AcceptOrder(v, o)
  \/ \E c \in Customers, o \in LeadIds : ProcessPayment(c, o)
  \/ \E o \in LeadIds : CancelOrder(o)
  \/ \E o \in LeadIds : MarkPaymentDone(o, TRUE)
  \/ \E o \in LeadIds : ConfirmOrder(o)
  \/ Callback

SpecFault == InitFault /\ [][NextFault]_vars

\* cart operations one after the other
NextSeq ==
  \/ \E c \in Customers, i \in Items, q \in Qtys : AddToCart(c, i, q)
  \/ \E c \in Customers, o \in LeadIds, i \in Items : RemoveFromCart(c, o, i)
  \/ \E i \in RepricedItems, p \in Prices : CreateInventoryPrice(i, p)

SpecSeq == Init /\ [][NextSeq]_vars

\* ------------------------------------------------------------------ properties
\* no request is between two of its awaits and no callback is pending or running
Quiescent ==
  /\ cartReqs = <<>>
  /\ rmReqs = <<>>
  /\ \A t \in 1..Len(timers) : timers[t].pc = "done"

\* C1: once an order's status is delivered, no step of any operation changes
\* it to another status.
C1_DeliveredIsTerminal ==
  [][\A o \in LeadIds :
       orders[o].orderStatus = "delivered" => orders'[o].orderStatus = "delivered"]_vars

\* C2: after any sequence of addToCart and removeFromCart operations, every
\* order's stored totalAmount is max(0, sum of totalCost - promoDiscount) and
\* its stored totalQty is the sum of the lines' qty.
C2_TotalsMatchItems ==
  \A o \in LeadIds :
    /\ orders[o].totalAmount =
         Max(0, SumCost(orders[o].items) - orders[o].promoDiscount)
    /\ orders[o].totalQty = SumQty(orders[o].items)

\* C2 witness: an order that went through an add of a second line, a removal
\* and a re-priced add on an existing line still has items
C2_AfterAddsAndRemoval ==
  \E o \in LeadIds :
    /\ orders[o].v >= 2
    /\ orders[o].isActive
    /\ \E k \in 1..Len(orders[o].items) :
         /\ orders[o].items[k].qty = 2
         /\ orders[o].items[k].totalCost # 2 * orders[o].items[k].unitPrice

\* C3: whenever no operation is in progress, every order's stored status is
\* the status of the most recent event of its history.
C3_StatusIsLatestEvent ==
  Quiescent =>
    \A o \in LeadIds :
      /\ statusHistory[o] # <<>>
      /\ orders[o].orderStatus =
           statusHistory[o][Len(statusHistory[o])].orderStatus

\* C4: a request handler appends a status event for an order only in a step
\* that also changes that order's status, and changes a status only with an
\* event (the callback's steps, which are one await each, are left aside).
C4_EventIffTransition ==
  [][timers' = timers =>
       \A o \in LeadIds :
         (statusHistory'[o] # statusHistory[o])
           <=> (orders'[o].orderStatus # orders[o].orderStatus)]_vars

\* C5: a vendor status update whose target does not come strictly after the
\* order's current status in truck_loading, in_transit, shipped,
\* out_for_delivery, delivered is rejected and writes nothing.
C5_VendorOnlyForward ==
  [][\A v \in Vendors, o \in LeadIds, s \in VendorStatusInputs :
       LET Rank(x) == IF \E k \in 1..Len(AllowedStatuses) : AllowedStatuses[k] = x
                      THEN CHOOSE k \in 1..Len(AllowedStatuses) : AllowedStatuses[k] = x
                      ELSE 0
       IN (/\ UpdateVendorOrderStatus(v, o, s)
           /\ FindVendorOrder(v, o)
           /\ Rank(s) <= Rank(orders[o].orderStatus))
          => (/\ resp' >= 400
              /\ orders' = orders
              /\ statusHistory' = statusHistory)]_vars

\* C6: no vendor operation moves an order whose status is pending,
\* vendor_accepted or payment_done to a shipping status; the order's status
\* is unchanged by the attempt.
C6_NoShippingBeforeConfirmed ==
  [][\A v \in Vendors, o \in LeadIds :
       (/\ orders[o].orderStatus \in {"pending", "vendor_accepted", "payment_done"}
        /\ \/ \E s \in VendorStatusInputs : UpdateVendorOrderStatus(v, o, s)
           \/ \E b \in BOOLEAN, s \in TrackingStatusInputs :
                UpdateDeliveryTracking(v, o, b, s))
       => orders'[o].orderStatus = orders[o].orderStatus]_vars

\* C7: when a callback has succeeded, the history of its order shows the
\* callback's payment_done event immediately before its order_confirmed event.
C7_PaymentDoneThenConfirmed ==
  \A t \in 1..Len(timers) :
    (timers[t].pc = "done" /\ timers[t].outcome = "ok") =>
      LET h == statusHistory[timers[t].leadId]
      IN \E k \in 2..Len(h) :
           /\ h[k] = StatusEvent("order_confirmed", timers[t].cust)
           /\ h[k - 1] = StatusEvent("payment_done", timers[t].cust)

\* the callback's events of order o: status events written in the customer's
\* name with the given status
CallbackEvents(o, c, status) ==
  {k \in 1..Len(statusHistory[o]) : statusHistory[o][k] = StatusEvent(status, c)}

C9_CallbackNeverCrashes ==
  \A t \in 1..Len(timers) :
    /\ timers[t].outcome \in {"none", "ok", "logged"}
    /\ timers[t].pc = "done" <=> timers[t].outcome # "none"

\* C9 witness: a callback whose await rejected has ended, on an order the
\* admin cancelled after the payment was initiated
C9_FailedOnCancelledOrder ==
  \E t \in 1..Len(timers) :
    /\ timers[t].pc = "done"
    /\ timers[t].outcome = "logged"
    /\ orders[timers[t].leadId].orderStatus = "cancelled"

\* C10: in every persisted state, an order with an empty item list is
\* inactive.
C10_EmptyOrderInactive ==
  \A o \in LeadIds : orders[o].items = <<>> => ~orders[o].isActive

\* C11: adding an item that is already a line of the order adds the qty to
\* that line, creates no second line, and sets the line's totalCost to the
\* new qty times the unit price stored on the line.
C11_ExistingLineKeepsSnapshot ==
  [][\A c \in Customers, i \in Items, q \in Qtys, o \in LeadIds :
       LET k == FindIndex(orders[o].items, i)
       IN (AddToCart(c, i, q) /\ o = FindPending(c, ItemVendor(i)) /\ k > 0)
          => /\ Len(orders'[o].items) = Len(orders[o].items)
             /\ orders'[o].items[k].qty = orders[o].items[k].qty + q
             /\ orders'[o].items[k].unitPrice = orders[o].items[k].unitPrice
             /\ orders'[o].items[k].totalCost =
                  (orders[o].items[k].qty + q) * orders[o].items[k].unitPrice]_vars

\* cart operations, price changes and placeOrder, one after the other
NextPlace ==
  \/ \E c \in Customers, i \in Items, q \in Qtys : AddToCart(c, i, q)
  \/ \E c \in Customers, o \in LeadIds, i \in Items : RemoveFromCart(c, o, i)
  \/ \E i \in RepricedItems, p \in Prices : CreateInventoryPrice(i, p)
  \/ \E c \in Customers, o \in LeadIds : PlaceOrder(c, o)

SpecPlace == Init /\ [][NextPlace]_vars

\* C12: once an order has been placed (its delivery record exists), a price
\* change does not reach it: in every later step a line that stays keeps its
\* unit price, its totalCost changes only by the added qty at that stored unit
\* price, and totalAmount changes by the same amount as the lines.
C12_PlacedOrderKeepsPrices ==
  [][\A o \in LeadIds :
       deliveries[o] # <<>> =>
         /\ \A k \in 1..Len(orders[o].items) :
              (k <= Len(orders'[o].items)
               /\ orders'[o].items[k].itemCode = orders[o].items[k].itemCode)
              => /\ orders'[o].items[k].unitPrice = orders[o].items[k].unitPrice
                 /\ orders'[o].items[k].totalCost - orders[o].items[k].totalCost =
                      (orders'[o].items[k].qty - orders[o].items[k].qty)
                        * orders[o].items[k].unitPrice
         /\ orders'[o].totalAmount - orders[o].totalAmount =
              SumCost(orders'[o].items) - SumCost(orders[o].items)]_vars

\* cart operations and inventory updates, one after the other
NextInv ==
  \/ \E c \in Customers, i \in Items, q \in Qtys : AddToCart(c, i, q)
  \/ \E c \in Customers, o \in LeadIds, i \in Items : RemoveFromCart(c, o, i)
  \/ \E i \in Items, u \in UpdateDataInputs : UpdateInventory(i, u)

SpecInv == Init /\ [][NextInv]_vars

\* C13: every line of an order is an item of the order's vendor; an addToCart
\* leaves the orders of other vendors as they are, and when the customer has
\* no pending order with the item's vendor it creates a new order for that
\* vendor.
C13_SingleVendorPerOrder ==
  /\ [](\A o \in LeadIds : \A k \in 1..Len(orders[o].items) :
          ItemVendor(orders[o].items[k].itemCode) = orders[o].vendorId)
  /\ [][\A c \in Customers, i \in Items, q \in Qtys :
          AddToCart(c, i, q) =>
            /\ \A o \in LeadIds :
                 orders[o].vendorId # ItemVendor(i) => orders'[o] = orders[o]
            /\ FindPending(c, ItemVendor(i)) = 0 =>
                 /\ Len(orders') = Len(orders) + 1
                 /\ orders'[Len(orders')].vendorId = ItemVendor(i)
                 /\ Len(orders'[Len(orders')].items) = 1]_vars

\* C13 witness: the customer holds two carts, one per vendor, after an
\* inventory update whose body named another vendor
C13_TwoVendorsTwoOrders ==
  \E o1 \in LeadIds, o2 \in LeadIds :
    /\ orders[o1].vendorId = "v1" /\ orders[o2].vendorId = "v2"
    /\ orders[o1].isActive /\ orders[o2].isActive
    /\ orders[o1].items # <<>> /\ orders[o2].items # <<>>
    /\ inventory["i1"].itemDescription = "d1"

\* C14: every order has at most one active delivery record.
C14_OneDeliveryPerOrder ==
  \A o \in LeadIds :
    Cardinality({k \in 1..Len(deliveries[o]) : deliveries[o][k].isActive}) <= 1

C16_DeliveredInLockstep ==
  Quiescent =>
    \A o \in LeadIds : \A k \in 1..Len(deliveries[o]) :
      (deliveries[o][k].isActive /\ deliveries[o][k].deliveryStatus = "delivered")
        => orders[o].orderStatus = "delivered"

\* C17: in every reachable state a delivery record whose status is delivered
\* has its deliveryActualDate set.
C17_DeliveredIsStamped ==
  \A o \in LeadIds : \A k \in 1..Len(deliveries[o]) :
    deliveries[o][k].deliveryStatus = "delivered" => deliveries[o][k].deliveryActualDate

\* ------------------------------------------------------------------ Promo model
\* a number field the document does not hold (no default in the schema)
Undefined == 0 - 1

\* NaN, what Math.min answers for an undefined argument
NotANumber == 0 - 2

MaxTime == 3
MaxUsed == 1

\* if (x): undefined and 0 are falsy
Truthy(x) == x # Undefined /\ x # 0

\* a < b on numbers; a comparison with undefined or NaN is false
JsLess(a, b) ==
  /\ a \notin {Undefined, NotANumber}
  /\ b \notin {Undefined, NotANumber}
  /\ a < b

\* Math.min(a, b) with b a number
MathMin(a, b) ==
  IF a \in {Undefined, NotANumber} THEN NotANumber ELSE IF a < b THEN a ELSE b

\* a - b with a a number
JsMinus(a, b) == IF b = NotANumber THEN NotANumber ELSE a - b

\* promoSchema.methods.isValid at time t
IsValid(p, t) ==
  /\ p.isActive
  /\ t >= p.startDate
  /\ t <= p.endDate
  /\ (p.usageLimit = 0 \/ JsLess(p.usedCount, p.usageLimit))

\* promoSchema.methods.calculateDiscount at time t
CalculateDiscount(p, orderValue, t) ==
  IF ~IsValid(p, t) \/ orderValue < p.minOrderValue
  THEN 0
  ELSE LET computed == IF p.discountType = "percentage"
                       THEN (orderValue * p.discount) \div 100
                       ELSE p.discountAmount
           capped == IF Truthy(p.maxDiscountAmount)
                        /\ JsLess(p.maxDiscountAmount, computed)
                     THEN p.maxDiscountAmount
                     ELSE computed
       IN MathMin(capped, orderValue)

\* promoSchema.methods.usePromo
UsePromo ==
  /\ promo.usedCount < MaxUsed
  /\ promo' = IF JsLess(0, promo.usageLimit)
              THEN [promo EXCEPT !.usedCount = @ + 1]
              ELSE promo
  /\ UNCHANGED <<authVars, orders, statusHistory, deliveries, payments, price, inventory,
                 cartReqs, rmReqs, timers, resp, faultBudget, now, promoQuote,
                 shipPrice, shipQuotes>>

\* calculatePromoDiscount for the stored promo
CalculatePromoDiscount(orderValue) ==
  LET discountAmount == CalculateDiscount(promo, orderValue, now) IN
  /\ promoQuote' = [orderValue |-> orderValue,
                    discountAmount |-> discountAmount,
                    finalAmount |-> JsMinus(orderValue, discountAmount),
                    isValid |-> IsValid(promo, now)]
  /\ resp' = 200
  /\ UNCHANGED <<authVars, orders, statusHistory, deliveries, payments, price, inventory,
                 cartReqs, rmReqs, timers, faultBudget, promo, now, shipPrice,
                 shipQuotes>>

\* time passes between two requests
Tick ==
  /\ now < MaxTime
  /\ now' = now + 1
  /\ UNCHANGED <<authVars, orders, statusHistory, deliveries, payments, price, inventory,
                 cartReqs, rmReqs, timers, resp, faultBudget, promo, promoQuote,
                 shipPrice, shipQuotes>>

\* promo documents the schema accepts, valid from time 1 to time 2
PromoDocs ==
  [isActive : BOOLEAN,
   discountType : {"percentage", "fixed"},
   discount : {10, 100},
   discountAmount : {Undefined, 30},
   minOrderValue : {0, 100},
   maxDiscountAmount : {Undefined, 0, 40},
   usageLimit : {Undefined, 0, 1},
   usedCount : {0},
   startDate : {1},
   endDate : {2}]

\* req.body.orderValue after parseFloat
OrderValueInputs == {0, 50, 100, 1000}

InitPromo ==
  /\ orders = <<>>
  /\ statusHistory = <<>>
  /\ deliveries = <<>>
  /\ payments = <<>>
  /\ price = [i \in Items |-> 10]
  /\ inventory = Catalogue
  /\ cartReqs = <<>>
  /\ rmReqs = <<>>
  /\ timers = <<>>
  /\ resp = 0
  /\ faultBudget = 0
  /\ promo \in PromoDocs
  /\ now = 0
  /\ promoQuote = <<>>
  /\ shipPrice = <<>>
  /\ shipQuotes = {}
  /\ userToken = [u \in AuthUsers |-> NoToken]
  /\ refreshReqs = <<>>
  /\ tokenCount = 0

\* a stored promo that is used and quoted while time passes
NextPromo ==
  \/ Tick
  \/ UsePromo
  \/ \E v \in OrderValueInputs : CalculatePromoDiscount(v)

SpecPromo == InitPromo /\ [][NextPromo]_vars

\* C18: the discount of every calculatePromoDiscount response is at most the
\* order value, and at most the promo's maxDiscountAmount whenever the promo
\* has one (0 included).
C18_DiscountWithinCaps ==
  promoQuote # <<>> =>
    /\ ~JsLess(promoQuote.orderValue, promoQuote.discountAmount)
    /\ promo.maxDiscountAmount # Undefined =>
         ~JsLess(promo.maxDiscountAmount, promoQuote.discountAmount)

\* C19: a calculatePromoDiscount request answers 0 when the promo is inactive,
\* the time is outside [startDate, endDate], the usage limit is exhausted or
\* the order value is below minOrderValue; otherwise (usage limit not
\* configured or not yet reached) it answers orderValue * discount / 100 for a
\* percentage promo and discountAmount for a fixed one, capped by
\* maxDiscountAmount when there is one and by the order value.
C19_DiscountAsSpecified ==
  [][\A v \in OrderValueInputs :
       CalculatePromoDiscount(v) =>
         LET exhausted == /\ promo.usageLimit # Undefined
                          /\ promo.usageLimit > 0
                          /\ promo.usedCount >= promo.usageLimit
             refused == \/ ~promo.isActive
                        \/ now < promo.startDate
                        \/ now > promo.endDate
                        \/ exhausted
                        \/ v < promo.minOrderValue
             computed == IF promo.discountType = "percentage"
                         THEN (v * promo.discount) \div 100
                         ELSE promo.discountAmount
             capped == IF promo.maxDiscountAmount # Undefined
                          /\ promo.maxDiscountAmount < computed
                       THEN promo.maxDiscountAmount
                       ELSE computed
         IN IF refused
            THEN promoQuote'.discountAmount = 0
            ELSE computed # Undefined =>
                   promoQuote'.discountAmount = (IF capped < v THEN capped ELSE v)]_vars

\* ------------------------------------------------------------------ InventoryShipPrice model
Max0to50k == 50000
Max50kto100k == 100000
Max100kto150k == 150000
Max150kto200k == 200000

MaxQuotes == 3

\* the bands with upper bounds left out
ExclusiveBands(sp, orderValue) ==
  IF orderValue < Max0to50k THEN sp.price0to50k
  ELSE IF orderValue < Max50kto100k THEN sp.price50kto100k
  ELSE IF orderValue < Max100kto150k THEN sp.price100kto150k
  ELSE IF orderValue < Max150kto200k THEN sp.price150kto200k
  ELSE sp.priceAbove200k

\* inventoryShipPriceSchema.methods.getShippingPrice
ShippingPriceOf(sp, orderValue) ==
  IF orderValue <= Max0to50k THEN sp.price0to50k
  ELSE IF orderValue <= Max50kto100k THEN sp.price50kto100k
  ELSE IF orderValue <= Max100kto150k THEN sp.price100kto150k
  ELSE IF orderValue <= Max150kto200k THEN sp.price150kto200k
  ELSE sp.priceAbove200k

\* getShippingPrice for the item's active table
GetShippingPrice(orderValue) ==
  /\ Cardinality(shipQuotes) < MaxQuotes
  /\ shipQuotes' = shipQuotes \cup
       {[orderValue |-> orderValue,
         shippingCost |-> ShippingPriceOf(shipPrice, orderValue)]}
  /\ resp' = 200
  /\ UNCHANGED <<authVars, orders, statusHistory, deliveries, payments, price, inventory,
                 cartReqs, rmReqs, timers, faultBudget, promo, now, promoQuote,
                 shipPrice>>


\* shippingTiers: the price fields, lowest band first
ShippingTiers ==
  <<"price0to50k", "price50kto100k", "price100kto150k", "price150kto200k",
    "priceAbove200k">>

\* shipping tables: the schema defaults, one fee per band, and fees shared by bands
ShipTables ==
  {[price0to50k |-> 0, price50kto100k |-> 0, price100kto150k |-> 0,
    price150kto200k |-> 0, priceAbove200k |-> 0],
   [price0to50k |-> 100, price50kto100k |-> 80, price100kto150k |-> 60,
    price150kto200k |-> 40, priceAbove200k |-> 20],
   [price0to50k |-> 50, price50kto100k |-> 50, price100kto150k |-> 70,
    price150kto200k |-> 70, priceAbove200k |-> 0]}

\* req.query.orderValue after parseFloat: both sides of every band boundary
ShipOrderValueInputs ==
  {0, Max0to50k, Max0to50k + 1, Max50kto100k, Max50kto100k + 1,
   Max100kto150k, Max100kto150k + 1, Max150kto200k, Max150kto200k + 1}

InitShip ==
  /\ orders = <<>>
  /\ statusHistory = <<>>
  /\ deliveries = <<>>
  /\ payments = <<>>
  /\ price = [i \in Items |-> 10]
  /\ inventory = Catalogue
  /\ cartReqs = <<>>
  /\ rmReqs = <<>>
  /\ timers = <<>>
  /\ resp = 0
  /\ faultBudget = 0
  /\ promo = <<>>
  /\ now = 0
  /\ promoQuote = <<>>
  /\ shipPrice \in ShipTables
  /\ shipQuotes = {}
  /\ userToken = [u \in AuthUsers |-> NoToken]
  /\ refreshReqs = <<>>
  /\ tokenCount = 0

\* quotes asked of one stored shipping table
NextShip == \E v \in ShipOrderValueInputs : GetShippingPrice(v)

SpecShip == InitShip /\ [][NextShip]_vars

\* the bands whose fee a quote answered
QuotedBands(q) == {b \in 1..5 : shipPrice[ShippingTiers[b]] = q.shippingCost}

\* C20: every getShippingPrice answer is the fee of the band whose inclusive
\* upper bound is the first one at or above the order value (the last band
\* above 200000); on a table with one fee per band every answer is the fee of
\* exactly one band, and a larger order value never answers a lower band.
C20_BandByInclusiveUpperBound ==
  /\ \A q \in shipQuotes :
       /\ q.orderValue <= 50000 => q.shippingCost = shipPrice.price0to50k
       /\ q.orderValue > 50000 /\ q.orderValue <= 100000 =>
            q.shippingCost = shipPrice.price50kto100k
       /\ q.orderValue > 100000 /\ q.orderValue <= 150000 =>
            q.shippingCost = shipPrice.price100kto150k
       /\ q.orderValue > 150000 /\ q.orderValue <= 200000 =>
            q.shippingCost = shipPrice.price150kto200k
       /\ q.orderValue > 200000 => q.shippingCost = shipPrice.priceAbove200k
  /\ shipPrice.price0to50k = 100 =>
       /\ \A q \in shipQuotes : Cardinality(QuotedBands(q)) = 1
       /\ \A q1, q2 \in shipQuotes :
            q1.orderValue <= q2.orderValue =>
              \A b1 \in QuotedBands(q1), b2 \in QuotedBands(q2) : b1 <= b2

\* 50000 was quoted the fee of band 1 and 50001 the fee of band 2
C20_BoundaryQuoted ==
  /\ shipPrice.price0to50k = 100
  /\ [orderValue |-> 50000, shippingCost |-> 100] \in shipQuotes
  /\ [orderValue |-> 50001, shippingCost |-> 80] \in shipQuotes

\* ------------------------------------------------------------------ auth controller
MaxTokens == 4
MaxRefreshes == 2

\* generateTokens(user).refreshToken: a token signed for the user, unlike every
\* token signed before
GenerateTokens(u) == [userId |-> u, n |-> tokenCount + 1]

\* verifyRefreshToken(token): the token carries the server's signature
VerifyRefreshToken(token) == token.n >= 1 /\ token.n <= tokenCount

\* the stored token is never compared
AnyVerifiedToken(u, token) == TRUE

\* user.refreshToken === token
TokenMatches(u, token) == userToken[u] = token

\* req.body.refreshToken: every token signed so far and an unsigned one
PresentedTokens ==
  {[userId |-> u, n |-> k] : u \in AuthUsers, k \in 1..MaxTokens}
    \cup {[userId |-> "c1", n |-> 0]}

AuthFrame ==
  UNCHANGED <<orders, statusHistory, deliveries, payments, price, inventory,
              cartReqs, rmReqs, timers, faultBudget, pricingVars>>

\* login with valid credentials: a new refresh token replaces the stored one
Login(u) ==
  /\ tokenCount + Len(refreshReqs) < MaxTokens
  /\ userToken' = [userToken EXCEPT ![u] = GenerateTokens(u)]
  /\ tokenCount' = tokenCount + 1
  /\ resp' = 200
  /\ UNCHANGED refreshReqs
  /\ AuthFrame

\* refreshToken up to the user lookup: the token is verified and compared with
\* the stored one
RefreshTokenCheck(token) ==
  /\ IF ~VerifyRefreshToken(token) \/ ~TokenMatches(token.userId, token)
     THEN /\ resp' = 401
          /\ UNCHANGED refreshReqs
     ELSE /\ Len(refreshReqs) < MaxRefreshes
          /\ tokenCount + Len(refreshReqs) < MaxTokens
          /\ refreshReqs' = Append(refreshReqs, [userId |-> token.userId, token |-> token])
          /\ UNCHANGED resp
  /\ UNCHANGED <<userToken, tokenCount>>
  /\ AuthFrame

\* refreshToken from generateTokens on: the new token is stored and answered
RefreshTokenSave(k) ==
  /\ k \in 1..Len(refreshReqs)
  /\ userToken' = [userToken EXCEPT ![refreshReqs[k].userId] = GenerateTokens(refreshReqs[k].userId)]
  /\ tokenCount' = tokenCount + 1
  /\ refreshReqs' = SubSeq(refreshReqs, 1, k - 1) \o SubSeq(refreshReqs, k + 1, Len(refreshReqs))
  /\ resp' = 200
  /\ AuthFrame

\* logout: findOneAndUpdate({refreshToken: token}, {refreshToken: null})
Logout(token) ==
  /\ IF \E u \in AuthUsers : userToken[u] = token
     THEN /\ userToken' = [u \in AuthUsers |->
                             IF userToken[u] = token THEN NoToken ELSE userToken[u]]
          /\ resp' = 200
     ELSE /\ resp' = 400
          /\ UNCHANGED userToken
  /\ UNCHANGED <<refreshReqs, tokenCount>>
  /\ AuthFrame

\* the auth endpoints, served in any interleaving
NextAuth ==
  \/ \E u \in AuthUsers : Login(u)
  \/ \E t \in PresentedTokens : RefreshTokenCheck(t)
  \/ \E k \in 1..MaxRefreshes : RefreshTokenSave(k)
  \/ \E t \in PresentedTokens : Logout(t)

SpecAuth == Init /\ [][NextAuth]_vars

C22_AdminStepsNeedTheirStatus ==
  [][\A o \in LeadIds :
       /\ \A b \in BOOLEAN :
            MarkPaymentDone(o, b) /\ orders[o].isActive =>
              IF orders[o].orderStatus # "vendor_accepted"
              THEN /\ resp' = 400
                   /\ UNCHANGED <<orders, payments, statusHistory>>
              ELSE resp' = 200 => orders'[o].orderStatus = "payment_done"
       /\ ConfirmOrder(o) /\ orders[o].isActive =>
            IF orders[o].orderStatus # "payment_done"
            THEN /\ resp' = 400
                 /\ UNCHANGED <<orders, payments, statusHistory>>
            ELSE resp' = 200 /\ orders'[o].orderStatus = "order_confirmed"]_vars

\* a confirmed order paid through the admin, with a request refused afterwards
C22_RefusedAfterConfirmation ==
  \E o \in LeadIds :
    /\ orders[o].orderStatus = "order_confirmed"
    /\ Len(payments[o]) = 1
    /\ timers = <<>>
    /\ resp = 400

\* C23: when an await of the payment callback rejects after the callback's
\* first write (the payment marked successful) has succeeded, the failure
\* reaches a caller: a request is answered with a server error, or the payment
\* record shows the failure.
C23_CallbackFailureReported ==
  [][\A t \in 1..Len(timers) :
       (/\ timers[t].pc \notin {"scheduled", "done"}
        /\ timers'[t].pc = "done"
        /\ timers'[t].outcome # "ok") =>
         \/ resp' # resp /\ resp' >= 500
         \/ payments'[timers[t].leadId][1].paymentStatus = "failed"]_vars

HappyPath ==
  <<"pending", "vendor_accepted", "payment_done", "order_confirmed",
    "truck_loading", "in_transit", "shipped", "out_for_delivery", "delivered">>

\* C25: each step of the documented sequence succeeds from the status before
\* it and stores its status on the order: acceptOrder from pending,
\* markPaymentDone from vendor_accepted, confirmOrder from payment_done, and
\* the vendor's status updates to truck_loading, in_transit, shipped,
\* out_for_delivery and delivered, each from its predecessor.
C25_HappyPathSucceeds ==
  [][\A o \in LeadIds :
       orders[o].isActive =>
         /\ (AcceptOrder(orders[o].vendorId, o) /\ orders[o].orderStatus = "pending") =>
              resp' = 200 /\ orders'[o].orderStatus = "vendor_accepted"
         /\ (MarkPaymentDone(o, TRUE) /\ orders[o].orderStatus = "vendor_accepted") =>
              resp' = 200 /\ orders'[o].orderStatus = "payment_done"
         /\ (ConfirmOrder(o) /\ orders[o].orderStatus = "payment_done") =>
              resp' = 200 /\ orders'[o].orderStatus = "order_confirmed"
         /\ \A k \in 5..Len(HappyPath) :
              (/\ UpdateVendorOrderStatus(orders[o].vendorId, o, HappyPath[k])
               /\ orders[o].orderStatus = HappyPath[k - 1]) =>
                resp' = 200 /\ orders'[o].orderStatus = HappyPath[k]]_vars

\* C26: no step changes an order whose isActive flag is false (its flag, items,
\* totals and status stay as they are) or appends a status event for it.
C26_DeactivatedIsTerminal ==
  [][\A o \in LeadIds :
       ~orders[o].isActive =>
         /\ orders'[o] = orders[o]
         /\ statusHistory'[o] = statusHistory[o]]_vars

\* C27: a step of the payment callback leaves a cancelled order cancelled, and
\* the callback's first status write finds the order still vendor_accepted.
C27_CallbackRespectsCancel ==
  [][Callback =>
       \A o \in LeadIds :
         orders'[o].orderStatus # orders[o].orderStatus =>
           /\ orders[o].orderStatus # "cancelled"
           /\ orders'[o].orderStatus = "payment_done" =>
                orders[o].orderStatus = "vendor_accepted"]_vars

\* ------------------------------------------------------------------ concurrent addToCart
MaxConcurrent == 2

\* addToCart up to the lookup, with MaxConcurrent requests in progress at once
ConcurrentLookup(cust, itemCode, qty) ==
  /\ Len(cartReqs) < MaxConcurrent
  /\ cartReqs' = Append(cartReqs, CartLookup(cust, itemCode, qty))
  /\ UNCHANGED <<orders, statusHistory, deliveries, payments, authVars, pricingVars,
                 price, inventory, rmReqs, timers, resp, faultBudget>>

\* addToCart from the lookup's result to the response
ConcurrentSave(k) ==
  /\ k \in 1..Len(cartReqs)
  /\ CartSaveFits(cartReqs[k])
  /\ ApplyCartSave(CartSave(cartReqs[k]))
  /\ cartReqs' = RemoveAt(cartReqs, k)
  /\ UNCHANGED <<authVars, pricingVars, price, inventory, rmReqs, timers, faultBudget>>

\* two items of the same vendor
RaceItems == {"i1", "i2"}

\* addToCart requests of one customer served concurrently, and removals
NextRace ==
  \/ \E c \in Customers, i \in RaceItems : ConcurrentLookup(c, i, 1)
  \/ \E k \in 1..MaxConcurrent : ConcurrentSave(k)
  \/ \E c \in Customers, o \in LeadIds, i \in RaceItems : RemoveFromCart(c, o, i)

SpecRace == Init /\ [][NextRace]_vars

\* C28: no two active pending orders have the same customer and the same
\* vendor.
C28_OnePendingPerPair ==
  \A o1, o2 \in LeadIds :
    (/\ o1 # o2
     /\ orders[o1].isActive /\ orders[o2].isActive
     /\ orders[o1].orderStatus = "pending" /\ orders[o2].orderStatus = "pending"
     /\ orders[o1].custUserId = orders[o2].custUserId) =>
      orders[o1].vendorId # orders[o2].vendorId

\* the four vendor handlers, called by vendor v for order o
VendorRequest(v, o) ==
  \/ AcceptOrder(v, o)
  \/ RejectOrder(v, o)
  \/ \E b \in BOOLEAN, s \in TrackingStatusInputs : UpdateDeliveryTracking(v, o, b, s)
  \/ \E s \in VendorStatusInputs : UpdateVendorOrderStatus(v, o, s)

Status(p, t) ==
  IF ~p.isActive THEN "inactive"
  ELSE IF t < p.startDate THEN "upcoming"
  ELSE IF t > p.endDate THEN "expired"
  ELSE IF JsLess(0, p.usageLimit) /\ ~JsLess(p.usedCount, p.usageLimit) THEN "exhausted"
  ELSE "active"

\* C30: at every time and for every stored promo, the status virtual is
\* 'active' exactly when isValid() answers true.
C30_ActiveIffValid ==
  promo # <<>> => (Status(promo, now) = "active" <=> IsValid(promo, now))

====
